---------------------------- MODULE Spec2Model ----------------------------
(***************************************************************************)
(* Model of the orderer's Deliver handler, deliverServer.Handle in         *)
(* orderer/common/deliver/deliver.go.                                      *)
(*                                                                         *)
(* One Handle call serves one client connection (a session).  It loops:    *)
(* Recv an envelope, validate it, look the channel up, apply the signature *)
(* filter, parse the SeekInfo, open a ledger cursor, resolve the stop      *)
(* number, stream blocks, send a status.  The ledger (ledger.Reader and    *)
(* its Iterator) lives outside deliver.go; it is modelled here by its      *)
(* interface contract: a log of blocks floor..height-1 that an appender    *)
(* extends concurrently with the sessions.                                 *)
(***************************************************************************)
EXTENDS Integers, Sequences, FiniteSets

(***************************************************************************)
(* Bounds of the model.                                                    *)
(***************************************************************************)
\* Largest block number a client may name and the ledger may commit.
MaxNum == 3
\* Largest value of the lowest retained block number.
MaxFloor == 1
\* The appender stops once blocks 0..MaxNum are committed.
MaxHeight == MaxNum + 1

\* Sessions: one Handle call each.  Spec runs ActiveSessions only.
Sessions == {"s1", "s2"}
ActiveSessions == {"s1"}

(***************************************************************************)
(* Data: seek positions, SeekInfo, envelopes, responses.                   *)
(***************************************************************************)
\* ab.SeekPosition: the oneof Oldest | Newest | Specified{Number}.
Oldest == [type |-> "Oldest", n |-> 0]
Newest == [type |-> "Newest", n |-> 0]
Specified(k) == [type |-> "Specified", n |-> k]
\* a nil Start or Stop pointer
NilPos == [type |-> "nil", n |-> 0]
SeekPositions == {Oldest, Newest} \cup {Specified(k) : k \in 0..MaxNum}

\* ab.SeekInfo_SeekBehavior
Behaviors == {"BLOCK_UNTIL_READY", "FAIL_IF_NOT_READY"}

\* filter.Action, the result of sigfilter's Apply
FilterActions == {"Forward", "Accept", "Reject"}

\* The channel ids a client may name; the SupportManager knows KnownChannels.
KnownChannels == {"ch"}
ChannelIds == {"ch", "nochan"}

\* An envelope, abstracted to what Handle reads of it:
\*   decode   "ok", or which of the three decoding steps fails
\*   channel  chdr.ChannelId
\*   sig      what the channel's signature filter answers for the envelope
\*   data     "ok" when payload.Data unmarshals to a SeekInfo, else "bad"
\*   start, stop, behavior   the SeekInfo's fields (NilPos: pointer is nil)
NoSeek == [data |-> "bad", start |-> NilPos, stop |-> NilPos,
           behavior |-> "BLOCK_UNTIL_READY"]
SeekPayloads ==
    {NoSeek} \cup
    [data : {"ok"}, start : SeekPositions \cup {NilPos},
     stop : SeekPositions \cup {NilPos}, behavior : Behaviors]
MkEnvelope(d, c, g, p) ==
    [decode |-> d, channel |-> c, sig |-> g, data |-> p.data,
     start |-> p.start, stop |-> p.stop, behavior |-> p.behavior]
UndecodableEnvelopes ==
    {MkEnvelope(d, "nochan", "Reject", NoSeek) :
        d \in {"bad_payload", "nil_header", "bad_channel_header"}}
DecodableEnvelopes ==
    {MkEnvelope("ok", c, g, p) :
        c \in ChannelIds, g \in FilterActions, p \in SeekPayloads}
Envelopes == UndecodableEnvelopes \cup DecodableEnvelopes
NoEnvelope == MkEnvelope("none", "nochan", "Reject", NoSeek)

\* ab.DeliverResponse: the oneof Block | Status
BlockReply(k) == [type |-> "Block", number |-> k, status |-> "-"]
StatusReply(st) == [type |-> "Status", number |-> 0, status |-> st]


(***************************************************************************)
(* The checks Handle runs on a received envelope, in the code's order.     *)
(***************************************************************************)
\* utils.UnmarshalPayload, payload.Header == nil, utils.UnmarshalChannelHeader
DecodeOK(env) == env.decode = "ok"

\* ds.sm.GetChain(chdr.ChannelId): the second result, ok
GetChain(chainID) == chainID \in KnownChannels

\* Forwarded with only an explicit Reject counted as a denial.
ForwardedUnlessReject(env) == env.sig # "Reject"

\* result != filter.Forward is a denial
Forwarded(env) == env.sig = "Forward"

\* SeekInfoOK without the nil test of Start and Stop.
SeekInfoOKNoNilTest(env) == env.data = "ok"

\* proto.Unmarshal(payload.Data, seekInfo) and the nil test of Start and Stop
SeekInfoOK(env) ==
    /\ env.data = "ok"
    /\ ~(env.start = NilPos \/ env.stop = NilPos)

\* The status of the first check that fails, "SUCCESS" when all pass.
\* Rejection with the seek info parsed before the signature is checked.
RejectionSeekFirst(env) ==
    IF ~DecodeOK(env) THEN "BAD_REQUEST"
    ELSE IF ~GetChain(env.channel) THEN "NOT_FOUND"
    ELSE IF ~SeekInfoOK(env) THEN "BAD_REQUEST"
    ELSE IF ~Forwarded(env) THEN "FORBIDDEN"
    ELSE "SUCCESS"

Rejection(env) ==
    IF ~DecodeOK(env) THEN "BAD_REQUEST"
    ELSE IF ~GetChain(env.channel) THEN "NOT_FOUND"
    ELSE IF ~Forwarded(env) THEN "FORBIDDEN"
    ELSE IF ~SeekInfoOK(env) THEN "BAD_REQUEST"
    ELSE "SUCCESS"

\* RejectionLogLevel with the channel miss logged like the other rejections.
RejectionLogLevelWarning(env) == "WARNING"

\* The level of the log call on the branch that rejects env.
RejectionLogLevel(env) ==
    IF ~DecodeOK(env) THEN "WARNING"
    ELSE IF ~GetChain(env.channel) THEN "DEBUG"
    ELSE "WARNING"

\* Whether Handle reaches sf.Apply(envelope) for env.
ReachesSigFilter(env) == DecodeOK(env) /\ GetChain(env.channel)

(***************************************************************************)
(* The range resolution and the loop's exit test.                          *)
(***************************************************************************)
\* ResolveStopNum with Newest taken to be the height itself.
ResolveStopNumHeight(stop, num, h) ==
    CASE stop.type = "Oldest" -> num
      [] stop.type = "Newest" -> h
      [] stop.type = "Specified" -> stop.n
      [] OTHER -> 0

\* The switch on seekInfo.Stop.Type: the value assigned to stopNum (which
\* keeps its zero value when no case matches).
\* h is what chain.Reader().Height() returns; it is at least 1 (the genesis
\* block), so the uint64 subtraction does not wrap.
ResolveStopNum(stop, num, h) ==
    CASE stop.type = "Oldest" -> num
      [] stop.type = "Newest" -> h - 1
      [] stop.type = "Specified" -> stop.n
      [] OTHER -> 0

\* InvalidRange with the comparison turned around.
InvalidRangeReversed(stop, num) ==
    stop.type = "Specified" /\ num < stop.n

\* The only range check of the code: inside the Specified case.
InvalidRange(stop, num) ==
    stop.type = "Specified" /\ stop.n < num

\* RangeDone that breaks only once the stop number is passed.
RangeDonePast(stopN, blockNumber) == stopN < blockNumber

\* if stopNum == block.Header.Number { break }
RangeDone(stopN, blockNumber) == stopN = blockNumber

(***************************************************************************)
(* The ledger, by its interface contract.                                  *)
(***************************************************************************)
\* Reader().Iterator(startPosition): the number the new cursor stands at.
\* fl is the lowest retained block number, h the height.
ReaderIterator(pos, fl, h) ==
    CASE pos.type = "Oldest" -> fl
      [] pos.type = "Newest" -> h - 1
      [] pos.type = "Specified" -> pos.n

\* The cursor's ReadyChan can be received from: its position is committed.
CursorReady(position, h) == position < h

\* cursor.Next()'s status at a position whose ReadyChan fired.
NextStatus(position, fl, fault) ==
    IF position < fl THEN "NOT_FOUND"
    ELSE IF fault THEN "SERVICE_UNAVAILABLE"
    ELSE "SUCCESS"

(***************************************************************************)
(* State.                                                                  *)
(***************************************************************************)
VARIABLES
    height,     \* the channel ledger's height: blocks floor..height-1 exist
    floor,      \* the lowest retained block number
    pc,         \* per session: where Handle stands
    result,     \* per session: "running", or what Handle returned
    served,     \* per session: an earlier request of the session completed
    envelope,   \* per session: the envelope being served
    cursor,     \* per session: the cursor's position (next number to read)
    number,     \* per session: the number Iterator returned
    stopNum,    \* per session: the resolved stop number
    block,      \* per session: block.Header.Number of the block pulled last
    sent,       \* per session: responses passed to srv.Send for this request
    obs         \* per session: what the request did (calls made, log levels)

vars == <<height, floor, pc, result, served, envelope, cursor, number, stopNum,
          block, sent, obs>>
ledgerVars == <<height, floor>>
loopVars == <<cursor, number, stopNum, block>>

\* What a request has done so far:
\*   applied    sf.Apply was called
\*   iterators  calls of Reader().Iterator
\*   nexts      calls of cursor.Next
\*   blocked    the blocking receive <-cursor.ReadyChan() was executed
\*   hread      the ledger height when stopNum was resolved (0: not yet)
\*   logs       the levels of the log calls made
NoObs == [applied |-> FALSE, iterators |-> 0, nexts |-> 0, blocked |-> FALSE,
          hread |-> 0, logs |-> {}]

Init ==
    /\ height \in 1..MaxNum
    /\ floor \in 0..MaxFloor
    /\ floor < height
    /\ pc = [s \in Sessions |-> "recv"]
    /\ result = [s \in Sessions |-> "running"]
    /\ served = [s \in Sessions |-> FALSE]
    /\ envelope = [s \in Sessions |-> NoEnvelope]
    /\ cursor = [s \in Sessions |-> 0]
    /\ number = [s \in Sessions |-> 0]
    /\ stopNum = [s \in Sessions |-> 0]
    /\ block = [s \in Sessions |-> 0]
    /\ sent = [s \in Sessions |-> <<>>]
    /\ obs = [s \in Sessions |-> NoObs]

seekInfo(s) == envelope[s]

\* Handle returns what srv.Send returned: nil, or the send error.
SendResult(ok) == IF ok THEN "nil" ELSE "sendErr"

\* sendStatusReply and sendBlockReply: one more response handed to srv.Send.
sendStatusReply(responses, status) == Append(responses, StatusReply(status))
sendBlockReply(responses, blockNumber) == Append(responses, BlockReply(blockNumber))


Logged(s, level) == [obs EXCEPT ![s].logs = @ \cup {level}]

(***************************************************************************)
(* Handle, one action per step between two points where the session can    *)
(* be interleaved with the appender: Recv, Iterator, Height, the readiness *)
(* signal, cursor.Next, srv.Send.                                          *)
(***************************************************************************)
\* srv.Recv() returns io.EOF: Handle returns nil.
RecvEOF(s) ==
    /\ pc[s] = "recv"
    /\ pc' = [pc EXCEPT ![s] = "done"]
    /\ result' = [result EXCEPT ![s] = "nil"]
    /\ obs' = Logged(s, "DEBUG")
    /\ UNCHANGED <<ledgerVars, loopVars, served, envelope, sent>>

\* RecvError treated as a hangup: the error is logged and nil returned.
RecvErrorSwallowed(s) ==
    /\ pc[s] = "recv"
    /\ pc' = [pc EXCEPT ![s] = "done"]
    /\ result' = [result EXCEPT ![s] = "nil"]
    /\ obs' = Logged(s, "WARNING")
    /\ UNCHANGED <<ledgerVars, loopVars, served, envelope, sent>>

\* srv.Recv() returns another error: Handle returns it.
RecvError(s) ==
    /\ pc[s] = "recv"
    /\ pc' = [pc EXCEPT ![s] = "done"]
    /\ result' = [result EXCEPT ![s] = "recvErr"]
    /\ obs' = Logged(s, "WARNING")
    /\ UNCHANGED <<ledgerVars, loopVars, served, envelope, sent>>

\* srv.Recv() returns an envelope that one of the checks rejects: Handle
\* returns sendStatusReply(srv, status).  ok: whether srv.Send succeeds.
RecvRejected(s, env, ok) ==
    /\ pc[s] = "recv"
    /\ Rejection(env) # "SUCCESS"
    /\ cursor' = [cursor EXCEPT ![s] = 0]
    /\ number' = [number EXCEPT ![s] = 0]
    /\ stopNum' = [stopNum EXCEPT ![s] = 0]
    /\ block' = [block EXCEPT ![s] = 0]
    /\ envelope' = [envelope EXCEPT ![s] = env]
    /\ obs' = [obs EXCEPT ![s] =
                 [NoObs EXCEPT !.applied = ReachesSigFilter(env),
                               !.logs = {"DEBUG", RejectionLogLevel(env)}]]
    /\ sent' = [sent EXCEPT ![s] = sendStatusReply(<<>>, Rejection(env))]
    /\ pc' = [pc EXCEPT ![s] = "done"]
    /\ result' = [result EXCEPT ![s] = SendResult(ok)]
    /\ UNCHANGED <<ledgerVars, served>>

\* srv.Recv() returns an envelope that passes every check: Handle goes on
\* to open the cursor.
RecvSeekInfo(s, env) ==
    /\ pc[s] = "recv"
    /\ Rejection(env) = "SUCCESS"
    /\ cursor' = [cursor EXCEPT ![s] = 0]
    /\ number' = [number EXCEPT ![s] = 0]
    /\ stopNum' = [stopNum EXCEPT ![s] = 0]
    /\ block' = [block EXCEPT ![s] = 0]
    /\ envelope' = [envelope EXCEPT ![s] = env]
    /\ obs' = [obs EXCEPT ![s] =
                 [NoObs EXCEPT !.applied = ReachesSigFilter(env),
                               !.logs = {"DEBUG"}]]
    /\ sent' = [sent EXCEPT ![s] = <<>>]
    /\ pc' = [pc EXCEPT ![s] = "iterator"]
    /\ UNCHANGED <<ledgerVars, served, result>>

\* cursor, number := chain.Reader().Iterator(seekInfo.Start)
OpenIterator(s) ==
    /\ pc[s] = "iterator"
    /\ cursor' = [cursor EXCEPT
                    ![s] = ReaderIterator(seekInfo(s).start, floor, height)]
    /\ number' = [number EXCEPT
                    ![s] = ReaderIterator(seekInfo(s).start, floor, height)]
    /\ obs' = [obs EXCEPT ![s].iterators = @ + 1]
    /\ pc' = [pc EXCEPT ![s] = "resolve"]
    /\ UNCHANGED <<ledgerVars, stopNum, block, result, served, envelope, sent>>

\* The switch on seekInfo.Stop.Type, with the Height() call of its Newest
\* case and the range check of its Specified case.
ResolveStop(s, ok) ==
    /\ pc[s] = "resolve"
    /\ stopNum' = [stopNum EXCEPT
                     ![s] = ResolveStopNum(seekInfo(s).stop, number[s], height)]
    /\ IF InvalidRange(seekInfo(s).stop, number[s])
       THEN /\ sent' = [sent EXCEPT
                          ![s] = sendStatusReply(@, "BAD_REQUEST")]
            /\ obs' = [obs EXCEPT ![s].hread = height,
                                  ![s].logs = @ \cup {"WARNING"}]
            /\ pc' = [pc EXCEPT ![s] = "done"]
            /\ result' = [result EXCEPT ![s] = SendResult(ok)]
       ELSE /\ ok
            /\ obs' = [obs EXCEPT ![s].hread = height]
            /\ pc' = [pc EXCEPT ![s] = "ready"]
            /\ UNCHANGED <<sent, result>>
    /\ UNCHANGED <<ledgerVars, cursor, number, block, served, envelope>>

\* WaitReady that wakes only when a block beyond the cursor's is committed.
WaitReadyOneLate(s) ==
    /\ pc[s] = "ready"
    /\ seekInfo(s).behavior = "BLOCK_UNTIL_READY"
    /\ CursorReady(cursor[s] + 1, height)
    /\ obs' = [obs EXCEPT ![s].blocked = TRUE]
    /\ pc' = [pc EXCEPT ![s] = "next"]
    /\ UNCHANGED <<ledgerVars, loopVars, result, served, envelope, sent>>

\* WaitReady under a lock of the chain held for the length of the wait: a
\* session can wait for readiness only while no other session does.
WaitReadyExclusive(s) ==
    /\ pc[s] = "ready"
    /\ seekInfo(s).behavior = "BLOCK_UNTIL_READY"
    /\ \A t \in Sessions \ {s} : pc[t] # "ready"
    /\ CursorReady(cursor[s], height)
    /\ obs' = [obs EXCEPT ![s].blocked = TRUE]
    /\ pc' = [pc EXCEPT ![s] = "next"]
    /\ UNCHANGED <<ledgerVars, loopVars, result, served, envelope, sent>>

\* BLOCK_UNTIL_READY: <-cursor.ReadyChan() returns once a block is ready.
WaitReady(s) ==
    /\ pc[s] = "ready"
    /\ seekInfo(s).behavior = "BLOCK_UNTIL_READY"
    /\ CursorReady(cursor[s], height)
    /\ obs' = [obs EXCEPT ![s].blocked = TRUE]
    /\ pc' = [pc EXCEPT ![s] = "next"]
    /\ UNCHANGED <<ledgerVars, loopVars, result, served, envelope, sent>>

\* PollReady whose default case ends the request and not the session.
PollReadyKeepsSession(s, ok) ==
    /\ pc[s] = "ready"
    /\ seekInfo(s).behavior # "BLOCK_UNTIL_READY"
    /\ IF CursorReady(cursor[s], height)
       THEN /\ ok
            /\ pc' = [pc EXCEPT ![s] = "next"]
            /\ UNCHANGED <<sent, result>>
       ELSE /\ sent' = [sent EXCEPT
                          ![s] = sendStatusReply(@, "NOT_FOUND")]
            /\ pc' = [pc EXCEPT ![s] = IF ok THEN "loop" ELSE "done"]
            /\ result' = [result EXCEPT
                            ![s] = IF ok THEN @ ELSE "sendErr"]
    /\ UNCHANGED <<ledgerVars, loopVars, served, envelope, obs>>

\* Otherwise: the select with a default case.  Not ready: Handle returns
\* sendStatusReply(srv, cb.Status_NOT_FOUND).
\* PollReady ending a request that finds no block ready as a served one.
PollReadySuccess(s, ok) ==
    /\ pc[s] = "ready"
    /\ seekInfo(s).behavior # "BLOCK_UNTIL_READY"
    /\ IF CursorReady(cursor[s], height)
       THEN /\ ok
            /\ pc' = [pc EXCEPT ![s] = "next"]
            /\ UNCHANGED <<sent, result>>
       ELSE /\ sent' = [sent EXCEPT
                          ![s] = sendStatusReply(@, "SUCCESS")]
            /\ pc' = [pc EXCEPT ![s] = "done"]
            /\ result' = [result EXCEPT ![s] = SendResult(ok)]
    /\ UNCHANGED <<ledgerVars, loopVars, served, envelope, obs>>

PollReady(s, ok) ==
    /\ pc[s] = "ready"
    /\ seekInfo(s).behavior # "BLOCK_UNTIL_READY"
    /\ IF CursorReady(cursor[s], height)
       THEN /\ ok
            /\ pc' = [pc EXCEPT ![s] = "next"]
            /\ UNCHANGED <<sent, result>>
       ELSE /\ sent' = [sent EXCEPT
                          ![s] = sendStatusReply(@, "NOT_FOUND")]
            /\ pc' = [pc EXCEPT ![s] = "done"]
            /\ result' = [result EXCEPT ![s] = SendResult(ok)]
    /\ UNCHANGED <<ledgerVars, loopVars, served, envelope, obs>>

\* block, status := cursor.Next(); a status other than SUCCESS is sent and
\* Handle returns.  fault: whether the ledger reports a read fault.
\* CursorNext answering every failed pull with one fixed status instead of
\* the status that Next returned.
CursorNextFixedStatus(s, fault, ok) ==
    /\ pc[s] = "next"
    /\ LET status == NextStatus(cursor[s], floor, fault) IN
       IF status # "SUCCESS"
       THEN /\ sent' = [sent EXCEPT ![s] =
                           sendStatusReply(@, "SERVICE_UNAVAILABLE")]
            /\ obs' = [obs EXCEPT ![s].nexts = @ + 1,
                                  ![s].logs = @ \cup {"ERROR"}]
            /\ pc' = [pc EXCEPT ![s] = "done"]
            /\ result' = [result EXCEPT ![s] = SendResult(ok)]
            /\ UNCHANGED <<cursor, block>>
       ELSE /\ ok
            /\ block' = [block EXCEPT ![s] = cursor[s]]
            /\ cursor' = [cursor EXCEPT ![s] = @ + 1]
            /\ obs' = [obs EXCEPT ![s].nexts = @ + 1]
            /\ pc' = [pc EXCEPT ![s] = "send"]
            /\ UNCHANGED <<sent, result>>
    /\ UNCHANGED <<ledgerVars, number, stopNum, served, envelope>>

CursorNext(s, fault, ok) ==
    /\ pc[s] = "next"
    /\ LET status == NextStatus(cursor[s], floor, fault) IN
       IF status # "SUCCESS"
       THEN /\ sent' = [sent EXCEPT ![s] = sendStatusReply(@, status)]
            /\ obs' = [obs EXCEPT ![s].nexts = @ + 1,
                                  ![s].logs = @ \cup {"ERROR"}]
            /\ pc' = [pc EXCEPT ![s] = "done"]
            /\ result' = [result EXCEPT ![s] = SendResult(ok)]
            /\ UNCHANGED <<cursor, block>>
       ELSE /\ ok
            /\ block' = [block EXCEPT ![s] = cursor[s]]
            /\ cursor' = [cursor EXCEPT ![s] = @ + 1]
            /\ obs' = [obs EXCEPT ![s].nexts = @ + 1]
            /\ pc' = [pc EXCEPT ![s] = "send"]
            /\ UNCHANGED <<sent, result>>
    /\ UNCHANGED <<ledgerVars, number, stopNum, served, envelope>>

\* SendBlock reporting a failed send to the client with a Status before it
\* returns the error.
SendBlockThenStatus(s, ok) ==
    /\ pc[s] = "send"
    /\ IF ~ok
       THEN /\ sent' = [sent EXCEPT
                          ![s] = sendStatusReply(sendBlockReply(@, block[s]),
                                                 "SERVICE_UNAVAILABLE")]
            /\ pc' = [pc EXCEPT ![s] = "done"]
            /\ result' = [result EXCEPT ![s] = "sendErr"]
            /\ obs' = Logged(s, "WARNING")
       ELSE /\ sent' = [sent EXCEPT ![s] = sendBlockReply(@, block[s])]
            /\ pc' = [pc EXCEPT ![s] =
                        IF RangeDone(stopNum[s], block[s])
                        THEN "success" ELSE "ready"]
            /\ UNCHANGED <<result, obs>>
    /\ UNCHANGED <<ledgerVars, loopVars, served, envelope>>

\* sendBlockReply(srv, block), then the test that ends the loop.
SendBlock(s, ok) ==
    /\ pc[s] = "send"
    /\ sent' = [sent EXCEPT ![s] = sendBlockReply(@, block[s])]
    /\ IF ~ok
       THEN /\ pc' = [pc EXCEPT ![s] = "done"]
            /\ result' = [result EXCEPT ![s] = "sendErr"]
            /\ obs' = Logged(s, "WARNING")
       ELSE /\ pc' = [pc EXCEPT ![s] =
                        IF RangeDone(stopNum[s], block[s])
                        THEN "success" ELSE "ready"]
            /\ UNCHANGED <<result, obs>>
    /\ UNCHANGED <<ledgerVars, loopVars, served, envelope>>

\* SendSuccess without its send: the loop's end goes straight back to Recv.
SendSuccessNoStatus(s, ok) ==
    /\ pc[s] = "success"
    /\ ok
    /\ pc' = [pc EXCEPT ![s] = "loop"]
    /\ obs' = Logged(s, "DEBUG")
    /\ UNCHANGED <<ledgerVars, loopVars, served, envelope, result, sent>>

\* sendStatusReply(srv, cb.Status_SUCCESS) after the loop.
SendSuccess(s, ok) ==
    /\ pc[s] = "success"
    /\ sent' = [sent EXCEPT ![s] = sendStatusReply(@, "SUCCESS")]
    /\ IF ~ok
       THEN /\ pc' = [pc EXCEPT ![s] = "done"]
            /\ result' = [result EXCEPT ![s] = "sendErr"]
            /\ obs' = Logged(s, "WARNING")
       ELSE /\ pc' = [pc EXCEPT ![s] = "loop"]
            /\ obs' = Logged(s, "DEBUG")
            /\ UNCHANGED result
    /\ UNCHANGED <<ledgerVars, loopVars, served, envelope>>

\* LoopBack replaced by a return: Handle ends after the SUCCESS status.
LoopBackReturns(s) ==
    /\ pc[s] = "loop"
    /\ pc' = [pc EXCEPT ![s] = "done"]
    /\ result' = [result EXCEPT ![s] = "nil"]
    /\ UNCHANGED <<ledgerVars, loopVars, served, envelope, sent, obs>>

\* The end of the outer loop's body: the request's locals go out of scope
\* and Handle is back at srv.Recv().
LoopBack(s) ==
    /\ pc[s] = "loop"
    /\ pc' = [pc EXCEPT ![s] = "recv"]
    /\ served' = [served EXCEPT ![s] = TRUE]
    /\ envelope' = [envelope EXCEPT ![s] = NoEnvelope]
    /\ cursor' = [cursor EXCEPT ![s] = 0]
    /\ number' = [number EXCEPT ![s] = 0]
    /\ stopNum' = [stopNum EXCEPT ![s] = 0]
    /\ block' = [block EXCEPT ![s] = 0]
    /\ obs' = [obs EXCEPT ![s] = NoObs]
    /\ UNCHANGED <<ledgerVars, result, sent>>

\* The ledger's writer commits the next block.
AppendBlock ==
    /\ height < MaxHeight
    /\ height' = height + 1
    /\ UNCHANGED <<floor, pc, result, served, envelope, loopVars, sent, obs>>

\* What srv.Recv() may bring; sendOK: the outcomes srv.Send may have.
Recv(s, sendOK) ==
    \/ RecvEOF(s)
    \/ RecvError(s)
    \/ \E env \in Envelopes, ok \in sendOK : RecvRejected(s, env, ok)
    \/ \E env \in Envelopes : RecvSeekInfo(s, env)

\* The steps Handle takes on its own once a SeekInfo is accepted; faults:
\* the outcomes the ledger's Next may have.
Serve(s, sendOK, faults) ==
    \/ OpenIterator(s)
    \/ \E ok \in sendOK : ResolveStop(s, ok)
    \/ WaitReady(s)
    \/ \E ok \in sendOK : PollReady(s, ok)
    \/ \E fault \in faults, ok \in sendOK : CursorNext(s, fault, ok)
    \/ \E ok \in sendOK : SendBlock(s, ok)
    \/ \E ok \in sendOK : SendSuccess(s, ok)
    \/ LoopBack(s)

Handle(s, sendOK, faults) == Recv(s, sendOK) \/ Serve(s, sendOK, faults)

Next ==
    \/ AppendBlock
    \/ \E s \in ActiveSessions : Handle(s, BOOLEAN, BOOLEAN)

Spec == Init /\ [][Next]_vars

\* The system with a transport whose sends succeed and a ledger whose reads
\* do not fault, in which the appender keeps committing blocks (up to the
\* model's height bound) and a session that can take a step of its own
\* eventually takes it.  Recv is the client's move and is not forced.
NextLive ==
    \/ AppendBlock
    \/ \E s \in ActiveSessions : Handle(s, {TRUE}, {FALSE})

SpecLive ==
    /\ Init /\ [][NextLive]_vars
    /\ WF_vars(AppendBlock)
    /\ \A s \in ActiveSessions : WF_vars(Serve(s, {TRUE}, {FALSE}))

\* Two Handle goroutines on the same channel next to the appender.  The
\* requests are authorized SeekInfos from the oldest block to block MaxNum,
\* in either behavior.  Session Runner takes the steps it
\* can take; nothing is assumed of the other session, which may stop for
\* good at any point, in Recv or in its readiness wait in particular.
Runner == "s1"
ConcEnvelopes ==
    {MkEnvelope("ok", "ch", "Forward",
                [data |-> "ok", start |-> Oldest, stop |-> Specified(MaxNum),
                 behavior |-> b]) :
        b \in Behaviors}

HandleConc(s) ==
    \/ \E env \in ConcEnvelopes : RecvSeekInfo(s, env)
    \/ Serve(s, {TRUE}, {FALSE})

NextConc ==
    \/ AppendBlock
    \/ \E s \in Sessions : HandleConc(s)

SpecConc ==
    /\ Init /\ [][NextConc]_vars
    /\ WF_vars(AppendBlock)
    /\ WF_vars(Serve(Runner, {TRUE}, {FALSE}))


(***************************************************************************)
(* Vocabulary of the properties.                                           *)
(***************************************************************************)
IsBlock(r) == r.type = "Block"
IsStatus(r) == r.type = "Status"
BlocksSent(s) == SelectSeq(sent[s], IsBlock)
\* The Block responses numbered a..b, ascending (empty when b < a).
Blocks(a, b) == [i \in 1..(b - a + 1) |-> BlockReply(a + i - 1)]
IsPrefix(p, q) == Len(p) <= Len(q) /\ \A i \in 1..Len(p) : p[i] = q[i]
\* The last response sent is the status st.
LastStatus(s, st) ==
    Len(sent[s]) > 0 /\ sent[s][Len(sent[s])] = StatusReply(st)

\* The seek info parses and has both positions.
WellFormedSeek(env) ==
    env.data = "ok" /\ env.start # NilPos /\ env.stop # NilPos
\* The envelope decodes down to its channel header.
Decodable(env) == env.decode = "ok"
\* A well-formed request for a known channel that the filter forwards.
Acceptable(env) ==
    /\ Decodable(env)
    /\ env.channel \in KnownChannels
    /\ env.sig = "Forward"
    /\ WellFormedSeek(env)

\* A request is in scope in session s / it is an acceptable one.
InRequest(s) == envelope[s] # NoEnvelope
Accepted(s) == InRequest(s) /\ Acceptable(envelope[s])
\* The stop number of an accepted request has been resolved.
Resolved(s) == Accepted(s) /\ obs[s].hread > 0
\* The request got past the range check into the cursor loop.
InLoop(s) == Resolved(s) /\ ~LastStatus(s, "BAD_REQUEST")
Returned(s) == pc[s] = "done"

(***************************************************************************)
(* C1.  Within one session, the Block responses of a request carry         *)
(* consecutive block numbers starting at the number Iterator returned, a   *)
(* request has at most one Status response and nothing follows it, and     *)
(* Handle is at Recv for the next request (or about to loop back to it)    *)
(* only when the last response sent is a Status.                           *)
(***************************************************************************)
C1_OrderedThenStatus ==
    \A s \in Sessions :
        LET out == sent[s] IN
        /\ \A i \in 1..Len(out) : IsStatus(out[i]) => i = Len(out)
        /\ \A i \in 1..Len(out) - 1 :
              IsBlock(out[i]) /\ IsBlock(out[i + 1])
                  => out[i + 1].number = out[i].number + 1
        /\ \A i \in 1..Len(out) :
              InRequest(s) /\ IsBlock(out[i])
                  => out[i].number = number[s] + i - 1
        /\ (pc[s] = "loop" \/ (pc[s] = "recv" /\ served[s]))
              => Len(out) > 0 /\ IsStatus(out[Len(out)])
        /\ pc[s] \in {"iterator", "resolve", "ready", "next", "send", "success"}
              => \A i \in 1..Len(out) : IsBlock(out[i])

\* A session back at Recv after a request that streamed two blocks or more.
C1_Witness ==
    \E s \in Sessions :
        /\ pc[s] = "recv" /\ served[s]
        /\ Len(sent[s]) >= 3
        /\ IsBlock(sent[s][1]) /\ IsBlock(sent[s][2])
        /\ IsStatus(sent[s][Len(sent[s])])


(***************************************************************************)
(* C2.  As claimed: every malformed envelope (undecodable payload, absent  *)
(* header, unparsable channel header, unparsable seek info, seek info      *)
(* without start or stop) gets exactly one response, Status BAD_REQUEST,   *)
(* and Handle returns.                                                     *)
(***************************************************************************)
Malformed(env) == ~Decodable(env) \/ ~WellFormedSeek(env)

C2_AnyMalformedIsBadRequest ==
    \A s \in Sessions :
        InRequest(s) /\ Malformed(envelope[s])
            => /\ sent[s] = <<StatusReply("BAD_REQUEST")>>
               /\ Returned(s)

(***************************************************************************)
(* C2, amended.  An envelope that cannot be decoded, or a decodable one    *)
(* for a known channel that the signature filter forwards and whose seek   *)
(* info is unparsable or lacks start or stop, gets exactly one response,   *)
(* Status BAD_REQUEST; no Block is sent, no cursor is opened or read, and  *)
(* Handle returns without calling Recv again.                              *)
(***************************************************************************)
MalformedFirst(env) ==
    \/ ~Decodable(env)
    \/ /\ env.channel \in KnownChannels
       /\ env.sig = "Forward"
       /\ ~WellFormedSeek(env)

C2_MalformedIsBadRequest ==
    \A s \in Sessions :
        InRequest(s) /\ MalformedFirst(envelope[s])
            => /\ sent[s] = <<StatusReply("BAD_REQUEST")>>
               /\ Returned(s)
               /\ obs[s].iterators = 0 /\ obs[s].nexts = 0

\* A forwarded request whose seek info parses but has no stop was answered.
C2_Witness ==
    \E s \in Sessions :
        /\ Returned(s)
        /\ Decodable(envelope[s]) /\ envelope[s].channel \in KnownChannels
        /\ envelope[s].sig = "Forward" /\ envelope[s].data = "ok"
        /\ envelope[s].start # NilPos /\ envelope[s].stop = NilPos
        /\ sent[s] = <<StatusReply("BAD_REQUEST")>>

(***************************************************************************)
(* C3.  A decodable request for a known channel whose signature filter     *)
(* answers anything but Forward gets a single Status FORBIDDEN and Handle  *)
(* returns; no Block is sent and no cursor is opened.                      *)
(***************************************************************************)
Denied(env) ==
    Decodable(env) /\ env.channel \in KnownChannels /\ env.sig # "Forward"

C3_DeniedIsForbidden ==
    \A s \in Sessions :
        InRequest(s) /\ Denied(envelope[s])
            => /\ sent[s] = <<StatusReply("FORBIDDEN")>>
               /\ Returned(s)
               /\ obs[s].iterators = 0 /\ obs[s].nexts = 0

\* A well-formed request that the filter answered Accept was refused.
C3_Witness ==
    \E s \in Sessions :
        /\ Returned(s)
        /\ Denied(envelope[s]) /\ WellFormedSeek(envelope[s])
        /\ envelope[s].sig = "Accept"
        /\ sent[s] = <<StatusReply("FORBIDDEN")>>

(***************************************************************************)
(* C4.  A decodable request for a channel the SupportManager does not know *)
(* gets a single Status NOT_FOUND and Handle returns; the signature filter *)
(* is not applied, no cursor is opened, and nothing is logged above the    *)
(* debug level.                                                            *)
(***************************************************************************)
UnknownChannel(env) ==
    Decodable(env) /\ ~(env.channel \in KnownChannels)

C4_UnknownChannelIsNotFound ==
    \A s \in Sessions :
        InRequest(s) /\ UnknownChannel(envelope[s])
            => /\ sent[s] = <<StatusReply("NOT_FOUND")>>
               /\ Returned(s)
               /\ ~obs[s].applied
               /\ obs[s].iterators = 0 /\ obs[s].nexts = 0
               /\ obs[s].logs \subseteq {"DEBUG"}

\* An otherwise acceptable request named an unknown channel.
C4_Witness ==
    \E s \in Sessions :
        /\ Returned(s)
        /\ UnknownChannel(envelope[s])
        /\ envelope[s].sig = "Forward" /\ WellFormedSeek(envelope[s])
        /\ sent[s] = <<StatusReply("NOT_FOUND")>>
        /\ obs[s].logs = {"DEBUG"}

(***************************************************************************)
(* C5.  An accepted request whose start and stop are both Specified with   *)
(* the stop number below the start number gets Status BAD_REQUEST and      *)
(* Handle returns: cursor.Next is never called and no Block is sent.       *)
(***************************************************************************)
SpecifiedBackwards(env) ==
    /\ env.start.type = "Specified" /\ env.stop.type = "Specified"
    /\ env.stop.n < env.start.n

C5_BackwardsRangeIsBadRequest ==
    \A s \in Sessions :
        Accepted(s) /\ SpecifiedBackwards(envelope[s])
            => /\ obs[s].nexts = 0
               /\ BlocksSent(s) = <<>>
               /\ \/ pc[s] \in {"iterator", "resolve"} /\ sent[s] = <<>>
                  \/ Returned(s) /\ sent[s] = <<StatusReply("BAD_REQUEST")>>

\* Such a request was refused after its cursor was opened.
C5_Witness ==
    \E s \in Sessions :
        /\ Accepted(s) /\ SpecifiedBackwards(envelope[s])
        /\ Returned(s)
        /\ obs[s].iterators = 1
        /\ sent[s] = <<StatusReply("BAD_REQUEST")>>


(***************************************************************************)
(* C6.  As claimed: whatever the tags of start and stop, a request whose   *)
(* resolved stop number is below its resolved start number gets Status     *)
(* BAD_REQUEST and Handle returns instead of entering the cursor loop.     *)
(***************************************************************************)
C6_BackwardsNeverEntersLoop ==
    \A s \in Sessions :
        Resolved(s) /\ stopNum[s] < number[s]
            => /\ Returned(s)
               /\ sent[s] = <<StatusReply("BAD_REQUEST")>>

(***************************************************************************)
(* C7.  An accepted request whose resolved range is [n, n]: the loop pulls *)
(* and sends block n and nothing else, then sends Status SUCCESS.  The     *)
(* only other outcomes are a failed send, and a block n that is not        *)
(* available: below the retained floor, not committed when polled under    *)
(* FAIL_IF_NOT_READY, or a read fault of the ledger.                       *)
(***************************************************************************)
C7_SingleBlockRange ==
    \A s \in Sessions :
        InLoop(s) /\ number[s] = stopNum[s]
            => LET n == number[s]
                   one == <<BlockReply(n)>>
                   both == <<BlockReply(n), StatusReply("SUCCESS")>>
               IN  \/ pc[s] \in {"ready", "next"} /\ sent[s] = <<>>
                   \/ pc[s] = "send" /\ sent[s] = <<>> /\ block[s] = n
                   \/ pc[s] = "success" /\ sent[s] = one
                   \/ pc[s] = "loop" /\ sent[s] = both
                   \/ /\ Returned(s) /\ result[s] = "sendErr"
                      /\ sent[s] \in {one, both}
                   \/ /\ Returned(s) /\ sent[s] = <<StatusReply("NOT_FOUND")>>
                      /\ \/ n < floor
                         \/ envelope[s].behavior = "FAIL_IF_NOT_READY"
                   \/ /\ Returned(s)
                      /\ sent[s] = <<StatusReply("SERVICE_UNAVAILABLE")>>
                      /\ obs[s].nexts = 1

\* A request for the single block n >= 1 was served in full.
C7_Witness ==
    \E s \in Sessions :
        /\ pc[s] = "loop"
        /\ number[s] = stopNum[s] /\ number[s] >= 1
        /\ sent[s] = <<BlockReply(number[s]), StatusReply("SUCCESS")>>
        /\ obs[s].nexts = 1

(***************************************************************************)
(* C8.  A request with start = Oldest and stop = Newest: the blocks sent   *)
(* are those from the lowest retained number through height - 1, with the  *)
(* height read when the stop was resolved, in ascending order; once the    *)
(* loop has ended all of them were sent, and Status SUCCESS follows.  No   *)
(* other status is sent but that of a read fault of the ledger.            *)
(***************************************************************************)
OldestToNewest(env) == env.start = Oldest /\ env.stop = Newest

C8_OldestToNewest ==
    \A s \in Sessions :
        Resolved(s) /\ OldestToNewest(envelope[s])
            => LET all == Blocks(floor, obs[s].hread - 1) IN
               /\ number[s] = floor
               /\ stopNum[s] = obs[s].hread - 1
               /\ IsPrefix(BlocksSent(s), all)
               /\ pc[s] \in {"success", "loop"} => BlocksSent(s) = all
               /\ pc[s] = "loop" => sent[s] = all \o <<StatusReply("SUCCESS")>>
               /\ LastStatus(s, "SUCCESS")
                     => sent[s] = all \o <<StatusReply("SUCCESS")>>
               /\ \A i \in 1..Len(sent[s]) :
                     IsStatus(sent[s][i])
                         => sent[s][i].status \in {"SUCCESS", "SERVICE_UNAVAILABLE"}

\* Such a request was served in full on a ledger whose floor is 1, with a
\* block committed after the stop was resolved.
C8_Witness ==
    \E s \in Sessions :
        /\ pc[s] = "loop" /\ OldestToNewest(envelope[s])
        /\ floor = 1 /\ obs[s].hread < height
        /\ Len(sent[s]) >= 3
        /\ sent[s][1] = BlockReply(1)
        /\ LastStatus(s, "SUCCESS")

(***************************************************************************)
(* C9.  As claimed: under FAIL_IF_NOT_READY, a poll of the readiness       *)
(* signal that finds no block ready sends Status NOT_FOUND and leaves the  *)
(* session open (Handle goes on, back to Recv).                            *)
(***************************************************************************)
\* Session s takes the step that polls a cursor with no block ready.
PollsNotReady(s) ==
    /\ pc[s] = "ready"
    /\ envelope[s].behavior = "FAIL_IF_NOT_READY"
    /\ ~(cursor[s] < height)
    /\ pc'[s] # "ready"

TailsToStop(s) ==
    /\ InLoop(s)
    /\ envelope[s].behavior = "BLOCK_UNTIL_READY"
    /\ envelope[s].stop.type = "Specified"
    /\ floor <= number[s]

C10_BlocksUntilStop ==
    /\ [](\A s \in Sessions :
            TailsToStop(s)
                => LET all == Blocks(number[s], envelope[s].stop.n) IN
                   /\ IsPrefix(sent[s], all \o <<StatusReply("SUCCESS")>>)
                   /\ \A i \in 1..Len(sent[s]) :
                         IsBlock(sent[s][i]) => sent[s][i].number < height
                   /\ pc[s] = "loop"
                         => sent[s] = all \o <<StatusReply("SUCCESS")>>)
    /\ \A s \in Sessions :
          (/\ TailsToStop(s)
           /\ pc[s] = "ready" /\ sent[s] = <<>>
           /\ ~(envelope[s].stop.n < height))
              ~> (pc[s] = "loop")

\* Such a request was served in full though its stop number was not
\* committed when the stop was resolved, and it streamed two blocks or more.
C10_Witness ==
    \E s \in Sessions :
        /\ TailsToStop(s) /\ pc[s] = "loop"
        /\ obs[s].hread <= envelope[s].stop.n
        /\ obs[s].blocked
        /\ Len(sent[s]) >= 3
        /\ sent[s] = Blocks(number[s], envelope[s].stop.n)
                        \o <<StatusReply("SUCCESS")>>


(***************************************************************************)
(* C11.  When the SUCCESS status of a request is sent without error,       *)
(* Handle does not return: it goes back to Recv, where a next SeekInfo is  *)
(* accepted with nothing sent yet and no cursor; that request's Iterator   *)
(* call gives it a cursor standing at the number its own start position    *)
(* resolves to on the ledger as it is then, and its stop number comes from *)
(* its own stop position, that number and the height read for it.          *)
(***************************************************************************)
\* What a start position resolves to on a ledger with floor fl, height h.
StartNumber(pos, fl, h) ==
    IF pos.type = "Oldest" THEN fl
    ELSE IF pos.type = "Newest" THEN h - 1
    ELSE pos.n

C11_SuccessKeepsSession ==
    /\ [][\A s \in Sessions :
            /\ (/\ pc[s] = "success"
                /\ pc'[s] # "success"
                /\ result'[s] # "sendErr")
                  => /\ pc'[s] = "loop" /\ result'[s] = "running"
                     /\ sent'[s] = Append(sent[s], StatusReply("SUCCESS"))
            /\ (pc[s] = "loop" /\ pc'[s] # "loop")
                  => /\ pc'[s] = "recv" /\ result'[s] = "running"
                     /\ served'[s]
            /\ (pc[s] = "recv" /\ served[s] /\ pc'[s] = "iterator")
                  => /\ Acceptable(envelope'[s])
                     /\ sent'[s] = <<>>
                     /\ obs'[s].iterators = 0 /\ obs'[s].nexts = 0
            /\ (pc[s] = "iterator" /\ pc'[s] # "iterator")
                  => /\ obs'[s].iterators = 1
                     /\ number'[s] = StartNumber(envelope[s].start, floor, height)
                     /\ cursor'[s] = number'[s]]_vars
    /\ [](\A s \in Sessions :
            Resolved(s)
                => stopNum[s] =
                      IF envelope[s].stop.type = "Oldest" THEN number[s]
                      ELSE IF envelope[s].stop.type = "Newest"
                           THEN obs[s].hread - 1
                      ELSE envelope[s].stop.n)

\* A second request of a session was served in full from the oldest block,
\* on a ledger with more blocks than it asked for.
C11_Witness ==
    \E s \in Sessions :
        /\ served[s] /\ pc[s] = "loop"
        /\ Len(sent[s]) >= 3
        /\ sent[s][1] = BlockReply(floor)
        /\ LastStatus(s, "SUCCESS")
        /\ height > Len(sent[s])


(***************************************************************************)
(* C12.  A Recv that yields no envelope ends Handle without any response:  *)
(* on io.EOF (logged at debug level) Handle returns nil, on any other      *)
(* error (logged at warning level) it returns that error; in both cases    *)
(* the responses sent on the stream are those sent before the Recv.        *)
(***************************************************************************)
\* Handle leaves its Recv with no envelope in hand.
RecvFails(s) ==
    /\ pc[s] = "recv"
    /\ pc'[s] = "done"
    /\ envelope'[s] = NoEnvelope

C12_RecvFailureReturns ==
    [][\A s \in Sessions :
         RecvFails(s)
            => /\ sent'[s] = sent[s]
               /\ \/ obs'[s].logs = {"DEBUG"} /\ result'[s] = "nil"
                  \/ obs'[s].logs = {"WARNING"} /\ result'[s] = "recvErr"]_vars

\* After a request served in full, Recv failed with an error other than
\* io.EOF: Handle has returned it and the stream holds that request's
\* responses only.
C12_Witness ==
    \E s \in Sessions :
        /\ Returned(s) /\ envelope[s] = NoEnvelope
        /\ result[s] = "recvErr"
        /\ served[s] /\ LastStatus(s, "SUCCESS")


(***************************************************************************)
(* C13.  When cursor.Next returns a status other than SUCCESS (the error   *)
(* is logged), a Status response carrying that very status is sent and it  *)
(* is the last response of the session: Handle has returned, the failed    *)
(* pull delivered no Block (every earlier pull delivered one), no SUCCESS  *)
(* follows, and the cursor was not pulled again.                           *)
(***************************************************************************)
\* cursor.Next of the request at hand returned a non-SUCCESS status.
NextFailed(s) == InRequest(s) /\ "ERROR" \in obs[s].logs

C13_NextFailureIsTerminal ==
    \A s \in Sessions :
        NextFailed(s)
            => /\ Returned(s)
               /\ sent[s] # <<>>
               /\ LET n == Len(sent[s]) IN
                    /\ sent[s][n] \in {StatusReply("NOT_FOUND"),
                                       StatusReply("SERVICE_UNAVAILABLE")}
                    /\ sent[s][n] = StatusReply("NOT_FOUND")
                          <=> cursor[s] < floor
                    /\ \A i \in 1..(n - 1) : IsBlock(sent[s][i])
                    /\ obs[s].nexts = n
                    /\ cursor[s] = number[s] + (n - 1)

\* After a block was delivered, Next failed on a ledger fault at a retained,
\* committed position.
C13_Witness ==
    \E s \in Sessions :
        /\ NextFailed(s) /\ LastStatus(s, "SERVICE_UNAVAILABLE")
        /\ Len(sent[s]) >= 2
        /\ floor <= cursor[s] /\ cursor[s] < height


(***************************************************************************)
(* C14.  With two sessions on the same channel and the appender running,   *)
(* every step changes the variables of one session at most and a session's *)
(* step leaves the ledger alone; and whatever the other session does, be   *)
(* it suspended for good in Recv or in its readiness wait, every request   *)
(* the running session has accepted is resolved, streamed and ended: with  *)
(* all the blocks of its range and SUCCESS, or, for FAIL_IF_NOT_READY,     *)
(* with NOT_FOUND at the first block that is not ready.                    *)
(***************************************************************************)
\* The variables of Handle's activation for session s.
Local(s) ==
    <<pc[s], result[s], served[s], envelope[s], cursor[s], number[s],
      stopNum[s], block[s], sent[s], obs[s]>>

RequestEnded(s) ==
    \/ /\ pc[s] = "loop"
       /\ sent[s] = Blocks(number[s], stopNum[s]) \o <<StatusReply("SUCCESS")>>
    \/ /\ Returned(s)
       /\ envelope[s].behavior = "FAIL_IF_NOT_READY"
       /\ LastStatus(s, "NOT_FOUND")

C14_SessionsDoNotInterfere ==
    /\ [][\A s \in Sessions :
            Local(s)' # Local(s)
                => /\ UNCHANGED ledgerVars
                   /\ \A t \in Sessions \ {s} : Local(t)' = Local(t)]_vars
    /\ (pc[Runner] = "iterator") ~> RequestEnded(Runner)

\* The running session's request has been streamed and ended while the
\* other session sits in its readiness wait with no block ready for it.
C14_Witness ==
    \E t \in Sessions \ {Runner} :
        /\ pc[t] = "ready"
        /\ envelope[t].behavior = "BLOCK_UNTIL_READY"
        /\ ~CursorReady(cursor[t], height)
        /\ Len(sent[Runner]) >= 3
        /\ RequestEnded(Runner)


(***************************************************************************)
(* C15.  As claimed: for a request whose stop position is Oldest, the stop *)
(* number resolved for it is the lowest retained block number of the       *)
(* ledger, whatever its start position.                                    *)
(***************************************************************************)
C15_OldestStopIsFloor ==
    \A s \in Sessions :
        Resolved(s) /\ envelope[s].stop.type = "Oldest"
            => stopNum[s] = floor


(***************************************************************************)
(* C16.  The checks of a received message run in the order decode,         *)
(* channel lookup, authorization, seek-info parsing, range validation, and *)
(* the only response of a message that fails one is the Status of the      *)
(* first it fails: BAD_REQUEST for an undecodable envelope, else NOT_FOUND *)
(* for an unknown channel whatever the signature, else FORBIDDEN for a     *)
(* signature not forwarded whatever the seek info and its range, else      *)
(* BAD_REQUEST for a malformed seek info; a BAD_REQUEST for the range is   *)
(* sent only after all of these passed and the cursor was opened.          *)
(***************************************************************************)
FirstFailure(env) ==
    IF ~Decodable(env) THEN "BAD_REQUEST"
    ELSE IF ~(env.channel \in KnownChannels) THEN "NOT_FOUND"
    ELSE IF env.sig # "Forward" THEN "FORBIDDEN"
    ELSE IF ~WellFormedSeek(env) THEN "BAD_REQUEST"
    ELSE "none"

C16_FirstFailingCheckDecides ==
    \A s \in Sessions :
        InRequest(s)
            => /\ FirstFailure(envelope[s]) # "none"
                  => /\ sent[s] = <<StatusReply(FirstFailure(envelope[s]))>>
                     /\ Returned(s)
                     /\ obs[s].iterators = 0
                     /\ obs[s].applied
                           <=> FirstFailure(envelope[s]) \in {"FORBIDDEN",
                                                              "BAD_REQUEST"}
                               /\ Decodable(envelope[s])
               /\ FirstFailure(envelope[s]) = "none"
                  => /\ obs[s].applied
                     /\ LastStatus(s, "BAD_REQUEST")
                           => /\ obs[s].iterators = 1
                              /\ sent[s] = <<StatusReply("BAD_REQUEST")>>
                              /\ envelope[s].stop.type = "Specified"
                              /\ envelope[s].stop.n < number[s]

\* A request that fails authorization and whose range is backwards was
\* answered FORBIDDEN.
C16_Witness ==
    \E s \in Sessions :
        /\ Returned(s)
        /\ Denied(envelope[s])
        /\ WellFormedSeek(envelope[s]) /\ SpecifiedBackwards(envelope[s])
        /\ sent[s] = <<StatusReply("FORBIDDEN")>>


(***************************************************************************)
(* C17.  When the send of a Block response or of the final SUCCESS status  *)
(* fails, Handle returns the send error at once: the response whose send   *)
(* failed is the last one handed to the stream, the cursor is not pulled   *)
(* again, and from then on the session takes no step (no Status, no Next,  *)
(* no Recv).                                                               *)
(***************************************************************************)
C17_SendFailureEndsSession ==
    [][\A s \in Sessions :
         /\ (pc[s] \in {"send", "success"} /\ result'[s] = "sendErr")
               => /\ pc'[s] = "done"
                  /\ sent'[s] = Append(sent[s],
                                       IF pc[s] = "send"
                                       THEN BlockReply(block[s])
                                       ELSE StatusReply("SUCCESS"))
                  /\ obs'[s].nexts = obs[s].nexts
                  /\ cursor'[s] = cursor[s]
         /\ result[s] = "sendErr"
               => Local(s)' = Local(s)]_vars

\* The send of the second block of a range failed and Handle returned.
C17_Witness ==
    \E s \in Sessions :
        /\ Returned(s) /\ result[s] = "sendErr"
        /\ Len(sent[s]) = 2
        /\ IsBlock(sent[s][1]) /\ IsBlock(sent[s][2])
        /\ obs[s].nexts = 2
        /\ stopNum[s] > block[s]


(***************************************************************************)
(* C18.  As claimed: a FAIL_IF_NOT_READY request whose Specified stop      *)
(* number is beyond the last committed block (and not below its start      *)
(* number) never blocks on the readiness signal, sends its blocks in       *)
(* ascending order from the start number, and never sends SUCCESS or       *)
(* BAD_REQUEST.                                                            *)
(***************************************************************************)
\* A FAIL_IF_NOT_READY request whose stop number was not committed when it
\* was resolved, and is not below the start number.
PollsToFutureStop(s) ==
    /\ Resolved(s)
    /\ envelope[s].behavior = "FAIL_IF_NOT_READY"
    /\ envelope[s].stop.type = "Specified"
    /\ envelope[s].stop.n >= obs[s].hread
    /\ number[s] <= envelope[s].stop.n

C19_BlocksWithinRange ==
    \A s \in Sessions :
        Resolved(s)
            => \A i \in 1..Len(sent[s]) :
                  IsBlock(sent[s][i])
                      => /\ number[s] <= sent[s][i].number
                         /\ sent[s][i].number <= stopNum[s]


(***************************************************************************)
(* C20.  As claimed: a request with start = Newest and stop = Newest sends *)
(* exactly one Block, then SUCCESS, in every interleaving with the         *)
(* appender: it never sends a second Block, and once its loop has ended    *)
(* the responses are one Block and SUCCESS.                                *)
(***************************************************************************)
NewestToNewest(env) == env.start = Newest /\ env.stop = Newest

C20_NewestIsOneBlock ==
    \A s \in Sessions :
        Resolved(s) /\ NewestToNewest(envelope[s])
            => /\ Len(BlocksSent(s)) <= 1
               /\ pc[s] = "loop"
                     => sent[s] = <<BlockReply(number[s]),
                                    StatusReply("SUCCESS")>>

=============================================================================
